---- MODULE Spec2Model ----
(***************************************************************************)
(* Flic Hub integration for Home Assistant: the setup path of a config     *)
(* entry (connect, bounded readiness wait, first refresh), the snapshot    *)
(* kept by the DataUpdateCoordinator (periodic pull and pushed BUTTONS     *)
(* replies), and the fan-out of button events to the event bus and to the  *)
(* per-entry dispatcher signal that the button event entities listen on,   *)
(* the version advisory of the issue registry, and the unload and reload   *)
(* of an entry.                                                            *)
(*                                                                         *)
(* Python values are modelled as follows.  None of a fetch is the record   *)
(* NoneFetch; a hub info is a string, "None" for None and "{}" for the     *)
(* empty dict; coordinator.data is NoData for None and otherwise a record  *)
(* with the two keys DATA_BUTTONS and DATA_HUB.                            *)
(***************************************************************************)
EXTENDS Integers, Sequences, FiniteSets, TLC

\* ------------------------------------------------------------------ bounds
MaxMsgs == 2     \* messages the hub sends to one client
MaxInbox == 2    \* messages of one client in flight at a time
MaxBusMsgs == 2  \* messages the hubs send in the fan-out specification
MaxReloads == 1  \* reloads of one config entry

\* --------------------------------------------------------------- constants
FLICHUB_DOMAIN == "flichub"   \* DOMAIN
SIGNAL_BUTTON_EVENT == "flichub_button_event"
EVENT_CLICK == "flichub_click"
REQUIRED_SERVER_VERSION == "0.1.8"
CLIENT_READY_TIMEOUT == 2

Entries == {"A", "B"}          \* entry.entry_id of the configured hubs
SetupEntries == {"A"}          \* the entry whose setup Spec follows

B1 == [serial_number |-> "s1", name |-> "n1"]
B1r == [serial_number |-> "s1", name |-> "n1r"]
B2 == [serial_number |-> "s2", name |-> "n2"]

NoneFetch == [ok |-> FALSE, val |-> <<>>]
Some(v) == [ok |-> TRUE, val |-> v]
ButtonLists == {<<>>, <<B1>>, <<B1, B2>>, <<B1, B1r>>}
ButtonFetches == {NoneFetch} \cup {Some(l) : l \in ButtonLists}
HubFetches == {"None", "hub1", "hub2"}
NoData == [none |-> TRUE]

\* The button event entities of the event platform: one per (entry, button).
Entities ==
    { [entry |-> "A", serial |-> "s1"],
      [entry |-> "A", serial |-> "s2"],
      [entry |-> "B", serial |-> "s1"] }

VARIABLES
    setup_pc,         \* where async_setup_entry of an entry stands
    setup_error,      \* the exception async_setup_entry raised, or "none"
    conn,             \* the client's connection
    client_ready,     \* the asyncio.Event client_ready
    elapsed,          \* time spent in the readiness wait
    stop_listener,    \* stop_client is registered for EVENT_HOMEASSISTANT_STOP
    hass_stopped,     \* EVENT_HOMEASSISTANT_STOP has fired
    disconnects,      \* the calls of client.disconnect(), by caller
    coordinator,      \* the closure variable coordinator is bound
    data,             \* coordinator.data
    pull_pc,          \* where the running refresh stands
    pull_buttons,     \* the `buttons` of the running, else of the latest, async_update
    refresh_tasks,    \* refresh tasks created by on_event, not yet started
    push_since_fetch, \* a BUTTONS reply was applied after the running pull's get_buttons
    device_registered,\* the hub device is in the device registry
    hass_data,        \* hass.data[DOMAIN] holds the entry
    retired,          \* the clients of earlier setups of the entry, oldest first
    unload_result,    \* what the latest async_unload_entry returned, or "none"
    inbox,            \* messages received from the hub, not yet handled
    hub_msgs,         \* number of messages the hub has sent
    cb_errors,        \* exceptions raised inside on_event / on_command
    issues,           \* the issue registry
    issue_creates,    \* number of async_create_issue calls
    bus_events,       \* events fired on hass.bus
    dispatched,       \* async_dispatcher_send calls
    dispatcher,       \* per signal, the connected targets in connection order
    ent_state,        \* life cycle of an entity
    unsub,            \* the entity's _unsub attribute
    received,         \* payloads the entity's _handle was called with
    triggered,        \* events the entity triggered
    logged_errors     \* entities whose handler raised (logged by the dispatcher)

setup_vars == <<setup_pc, setup_error, conn, client_ready, elapsed, stop_listener,
                hass_stopped, disconnects, device_registered, hass_data>>
coord_vars == <<coordinator, data, pull_pc, pull_buttons, refresh_tasks, push_since_fetch>>
life_vars == <<retired, unload_result>>
hub_vars == <<inbox, hub_msgs>>
cb_vars == <<cb_errors, issues, issue_creates>>
bus_vars == <<bus_events, dispatched>>
ent_vars == <<dispatcher, ent_state, unsub, received, triggered, logged_errors>>
vars == <<setup_vars, life_vars, coord_vars, hub_vars, cb_vars, bus_vars, ent_vars>>

\* ------------------------------------------------------------- pure parts
Range(s) == {s[i] : i \in DOMAIN s}

\* {button.serial_number: button for button in buttons}
RECURSIVE KeyBySerial(_)
KeyBySerial(buttons) ==
    IF buttons = <<>> THEN <<>>
    ELSE LET n == Len(buttons)
             rest == KeyBySerial(SubSeq(buttons, 1, n - 1))
             b == buttons[n]
         IN [s \in DOMAIN rest \cup {b.serial_number} |->
                IF s = b.serial_number THEN b ELSE rest[s]]

\* The dict async_update returns.
async_update(buttons, hub_info) ==
    [buttons |-> IF buttons.ok THEN KeyBySerial(buttons.val) ELSE <<>>,
     hub |-> IF hub_info # "None" THEN hub_info ELSE "{}"]

\* Truth value of a hub info (None and {} are false).
HubTruthy(h) == h \notin {"None", "{}"}

\* Faulty variant of Signal: the entry id is left out of the signal name.
SignalShared(entry_id) == SIGNAL_BUTTON_EVENT

\* f"{SIGNAL_BUTTON_EVENT}_{entry.entry_id}"
Signal(entry_id) == SIGNAL_BUTTON_EVENT \o "_" \o entry_id
Signals == {Signal(e) : e \in Entries}

\* ------------------------------------------------------------------ Init
Init ==
    /\ setup_pc = [e \in Entries |-> "none"]
    /\ setup_error = [e \in Entries |-> "none"]
    /\ conn = [e \in Entries |-> "none"]
    /\ client_ready = [e \in Entries |-> FALSE]
    /\ elapsed = [e \in Entries |-> 0]
    /\ stop_listener = [e \in Entries |-> FALSE]
    /\ hass_stopped = FALSE
    /\ disconnects = [e \in Entries |-> <<>>]
    /\ coordinator = [e \in Entries |-> FALSE]
    /\ data = [e \in Entries |-> NoData]
    /\ pull_pc = [e \in Entries |-> "idle"]
    /\ pull_buttons = [e \in Entries |-> NoneFetch]
    /\ refresh_tasks = [e \in Entries |-> 0]
    /\ push_since_fetch = [e \in Entries |-> FALSE]
    /\ device_registered = [e \in Entries |-> FALSE]
    /\ hass_data = [e \in Entries |-> FALSE]
    /\ retired = [e \in Entries |-> <<>>]
    /\ unload_result = [e \in Entries |-> "none"]
    /\ inbox = [e \in Entries |-> <<>>]
    /\ hub_msgs = [e \in Entries |-> 0]
    /\ cb_errors = [e \in Entries |-> {}]
    /\ issues = {}
    /\ issue_creates = [e \in Entries |-> 0]
    /\ bus_events = <<>>
    /\ dispatched = <<>>
    /\ dispatcher = [s \in Signals |-> <<>>]
    /\ ent_state = [t \in Entities |-> "new"]
    /\ unsub = [t \in Entities |-> "unset"]
    /\ received = [t \in Entities |-> <<>>]
    /\ triggered = [t \in Entities |-> <<>>]
    /\ logged_errors = {}

\* ------------------------------------------------------- async_setup_entry
\* Lines 44-129: the callbacks and the client are created, the hooks are set,
\* and setup suspends in client.async_connect().
async_setup_entry(e) ==
    /\ setup_pc[e] = "none"
    /\ ~hass_stopped
    /\ setup_pc' = [setup_pc EXCEPT ![e] = "connect"]
    /\ conn' = [conn EXCEPT ![e] = "connecting"]
    /\ client_ready' = [client_ready EXCEPT ![e] = FALSE]
    /\ UNCHANGED <<setup_error, elapsed, stop_listener, hass_stopped, disconnects,
                   device_registered, hass_data>>
    /\ UNCHANGED <<coord_vars, hub_vars, cb_vars, bus_vars, ent_vars>>
    /\ UNCHANGED life_vars

\* The client's connected hook: sets the readiness flag, then asks for the
\* server info (the reply comes back through on_command).
client_connected(e) ==
    /\ conn[e] = "connecting"
    /\ conn' = [conn EXCEPT ![e] = "connected"]
    /\ client_ready' = [client_ready EXCEPT ![e] = TRUE]
    /\ UNCHANGED <<setup_pc, setup_error, elapsed, stop_listener, hass_stopped,
                   disconnects, device_registered, hass_data>>
    /\ UNCHANGED <<coord_vars, hub_vars, cb_vars, bus_vars, ent_vars>>
    /\ UNCHANGED life_vars

\* Lines 141-149: the coordinator is created and the first refresh runs up to
\* its first suspension, the get_buttons() of async_update.
FirstRefreshStart(e) ==
    /\ setup_pc' = [setup_pc EXCEPT ![e] = "first_refresh"]
    /\ coordinator' = [coordinator EXCEPT ![e] = TRUE]
    /\ pull_pc' = [pull_pc EXCEPT ![e] = "buttons"]
    /\ UNCHANGED <<data, pull_buttons, refresh_tasks, push_since_fetch>>

\* client.async_connect() returns: the stop listener is registered and the
\* readiness wait begins; it returns at once when the flag is already set.
async_connect_return(e) ==
    /\ setup_pc[e] = "connect"
    /\ conn[e] \in {"connecting", "connected"}
    /\ stop_listener' = [stop_listener EXCEPT ![e] = TRUE]
    /\ IF client_ready[e]
       THEN FirstRefreshStart(e)
       ELSE /\ setup_pc' = [setup_pc EXCEPT ![e] = "wait"]
            /\ UNCHANGED coord_vars
    /\ elapsed' = [elapsed EXCEPT ![e] = 0]
    /\ UNCHANGED <<setup_error, conn, client_ready, hass_stopped, disconnects,
                   device_registered, hass_data>>
    /\ UNCHANGED <<hub_vars, cb_vars, bus_vars, ent_vars>>
    /\ UNCHANGED life_vars

\* client.async_connect() raises: nothing catches it, setup ends with the error.
async_connect_raise(e) ==
    /\ setup_pc[e] = "connect"
    /\ conn[e] = "connecting"
    /\ setup_pc' = [setup_pc EXCEPT ![e] = "error"]
    /\ setup_error' = [setup_error EXCEPT ![e] = "ConnectError"]
    /\ conn' = [conn EXCEPT ![e] = "disconnected"]
    /\ UNCHANGED <<client_ready, elapsed, stop_listener, hass_stopped, disconnects,
                   device_registered, hass_data>>
    /\ UNCHANGED <<coord_vars, hub_vars, cb_vars, bus_vars, ent_vars>>
    /\ UNCHANGED life_vars

\* Time passes in `await client_ready.wait()`; at CLIENT_READY_TIMEOUT the
\* timeout cancels the wait.
Tick(e) ==
    /\ setup_pc[e] = "wait"
    /\ ~client_ready[e]
    /\ elapsed[e] < CLIENT_READY_TIMEOUT
    /\ elapsed' = [elapsed EXCEPT ![e] = @ + 1]
    /\ setup_pc' = [setup_pc EXCEPT ![e] =
                      IF elapsed[e] + 1 = CLIENT_READY_TIMEOUT THEN "timedout" ELSE @]
    /\ UNCHANGED <<setup_error, conn, client_ready, stop_listener, hass_stopped,
                   disconnects, device_registered, hass_data>>
    /\ UNCHANGED <<coord_vars, hub_vars, cb_vars, bus_vars, ent_vars>>
    /\ UNCHANGED life_vars

\* client_ready.wait() returns inside the timeout block.
wait_return(e) ==
    /\ setup_pc[e] = "wait"
    /\ client_ready[e]
    /\ FirstRefreshStart(e)
    /\ UNCHANGED <<setup_error, conn, client_ready, elapsed, stop_listener,
                   hass_stopped, disconnects, device_registered, hass_data>>
    /\ UNCHANGED <<hub_vars, cb_vars, bus_vars, ent_vars>>
    /\ UNCHANGED life_vars

\* Faulty variant of wait_timeout: the client is not disconnected.
wait_timeout_no_disconnect(e) ==
    /\ setup_pc[e] = "timedout"
    /\ setup_pc' = [setup_pc EXCEPT ![e] = "error"]
    /\ setup_error' = [setup_error EXCEPT ![e] = "ConfigEntryNotReady"]
    /\ UNCHANGED <<conn, disconnects, client_ready, elapsed, stop_listener, hass_stopped,
                   device_registered, hass_data>>
    /\ UNCHANGED <<coord_vars, hub_vars, cb_vars, bus_vars, ent_vars>>
    /\ UNCHANGED life_vars

\* except asyncio.TimeoutError: log, client.disconnect(), raise ConfigEntryNotReady.
wait_timeout(e) ==
    /\ setup_pc[e] = "timedout"
    /\ disconnects' = [disconnects EXCEPT ![e] = Append(@, "setup")]
    /\ conn' = [conn EXCEPT ![e] = "disconnected"]
    /\ setup_pc' = [setup_pc EXCEPT ![e] = "error"]
    /\ setup_error' = [setup_error EXCEPT ![e] = "ConfigEntryNotReady"]
    /\ UNCHANGED <<client_ready, elapsed, stop_listener, hass_stopped,
                   device_registered, hass_data>>
    /\ UNCHANGED <<coord_vars, hub_vars, cb_vars, bus_vars, ent_vars>>
    /\ UNCHANGED life_vars

\* EVENT_HOMEASSISTANT_STOP fires: every registered stop_client runs once, the
\* ones registered by earlier setups of an entry included (nothing removes them).
stop_client ==
    /\ ~hass_stopped
    /\ hass_stopped' = TRUE
    /\ disconnects' = [e \in Entries |->
                         IF stop_listener[e] THEN Append(disconnects[e], "stop")
                         ELSE disconnects[e]]
    /\ conn' = [e \in Entries |-> IF stop_listener[e] THEN "disconnected" ELSE conn[e]]
    /\ stop_listener' = [e \in Entries |-> FALSE]
    /\ retired' = [e \in Entries |->
                     [i \in DOMAIN retired[e] |->
                        IF retired[e][i].stop_listener
                        THEN [disconnects |-> Append(retired[e][i].disconnects, "stop"),
                              stop_listener |-> FALSE]
                        ELSE retired[e][i]]]
    /\ UNCHANGED <<setup_pc, setup_error, client_ready, elapsed, device_registered,
                   hass_data, unload_result>>
    /\ UNCHANGED <<coord_vars, hub_vars, cb_vars, bus_vars, ent_vars>>

\* ------------------------------------------------------------ the refresh
\* The coordinator starts a refresh on its update interval.
periodic_refresh(e) ==
    /\ setup_pc[e] = "done"
    /\ coordinator[e]
    /\ pull_pc[e] = "idle"
    /\ pull_pc' = [pull_pc EXCEPT ![e] = "buttons"]
    /\ UNCHANGED <<coordinator, data, pull_buttons, refresh_tasks, push_since_fetch>>
    /\ UNCHANGED <<setup_vars, hub_vars, cb_vars, bus_vars, ent_vars>>
    /\ UNCHANGED life_vars

\* A task created by on_event runs coordinator.async_refresh(); refreshes of
\* one coordinator run one at a time.
refresh_task(e) ==
    /\ refresh_tasks[e] > 0
    /\ pull_pc[e] = "idle"
    /\ refresh_tasks' = [refresh_tasks EXCEPT ![e] = @ - 1]
    /\ pull_pc' = [pull_pc EXCEPT ![e] = "buttons"]
    /\ UNCHANGED <<coordinator, data, pull_buttons, push_since_fetch>>
    /\ UNCHANGED <<setup_vars, hub_vars, cb_vars, bus_vars, ent_vars>>
    /\ UNCHANGED life_vars

\* async_update: `buttons = await client.get_buttons()` returns.
get_buttons_return(e, buttons) ==
    /\ pull_pc[e] = "buttons"
    /\ pull_buttons' = [pull_buttons EXCEPT ![e] = buttons]
    /\ pull_pc' = [pull_pc EXCEPT ![e] = "hubinfo"]
    /\ push_since_fetch' = [push_since_fetch EXCEPT ![e] = FALSE]
    /\ UNCHANGED <<coordinator, data, refresh_tasks>>
    /\ UNCHANGED <<setup_vars, hub_vars, cb_vars, bus_vars, ent_vars>>
    /\ UNCHANGED life_vars

\* Faulty variant of SetupAfterFirstRefresh: a failed sub-query of the first
\* refresh ends setup with an error.
SetupAfterFirstRefreshStrict(e, d) ==
    IF ~pull_buttons[e].ok \/ ~HubTruthy(d.hub)
    THEN /\ setup_pc' = [setup_pc EXCEPT ![e] = "error"]
         /\ setup_error' = [setup_error EXCEPT ![e] = "ConfigEntryNotReady"]
         /\ UNCHANGED <<device_registered, hass_data>>
    ELSE /\ device_registered' = [device_registered EXCEPT ![e] = HubTruthy(d.hub)]
         /\ hass_data' = [hass_data EXCEPT ![e] = TRUE]
         /\ setup_pc' = [setup_pc EXCEPT ![e] = "forward"]
         /\ UNCHANGED setup_error

\* Lines 149-179, after the first refresh: async_config_entry_first_refresh
\* raises only when the update method raised, which async_update never does;
\* the hub device is registered when the hub info is truthy, the entry is
\* stored, and setup suspends in async_forward_entry_setups.
SetupAfterFirstRefresh(e, d) ==
    /\ device_registered' = [device_registered EXCEPT ![e] = HubTruthy(d.hub)]
    /\ hass_data' = [hass_data EXCEPT ![e] = TRUE]
    /\ setup_pc' = [setup_pc EXCEPT ![e] = "forward"]
    /\ UNCHANGED setup_error

\* Faulty variant of PulledData: a failed buttons fetch keeps the buttons of
\* the previous snapshot.
PulledDataStale(e, hub_info) ==
    LET d == async_update(pull_buttons[e], hub_info)
    IN IF ~pull_buttons[e].ok /\ data[e] # NoData
       THEN [d EXCEPT !.buttons = data[e].buttons]
       ELSE d

\* The dict the running async_update of entry e returns for this hub info.
PulledData(e, hub_info) == async_update(pull_buttons[e], hub_info)

\* async_update: `hub_info = await client.get_hubinfo()` returns, the dict is
\* returned and the coordinator stores it as its data.
get_hubinfo_return(e, hub_info) ==
    /\ pull_pc[e] = "hubinfo"
    /\ LET d == PulledData(e, hub_info)
       IN /\ data' = [data EXCEPT ![e] = d]
          /\ IF setup_pc[e] = "first_refresh"
             THEN SetupAfterFirstRefresh(e, d)
             ELSE UNCHANGED <<device_registered, hass_data, setup_pc, setup_error>>
    /\ pull_pc' = [pull_pc EXCEPT ![e] = "idle"]
    /\ push_since_fetch' = [push_since_fetch EXCEPT ![e] = FALSE]
    /\ UNCHANGED <<coordinator, pull_buttons, refresh_tasks>>
    /\ UNCHANGED <<conn, client_ready, elapsed, stop_listener, hass_stopped, disconnects>>
    /\ UNCHANGED <<hub_vars, cb_vars, bus_vars, ent_vars>>
    /\ UNCHANGED life_vars

\* async_forward_entry_setups returns; the update listener is added and
\* async_setup_entry returns True.
forward_return(e) ==
    /\ setup_pc[e] = "forward"
    /\ setup_pc' = [setup_pc EXCEPT ![e] = "done"]
    /\ UNCHANGED <<setup_error, conn, client_ready, elapsed, stop_listener,
                   hass_stopped, disconnects, device_registered, hass_data>>
    /\ UNCHANGED <<coord_vars, hub_vars, cb_vars, bus_vars, ent_vars>>
    /\ UNCHANGED life_vars

\* ------------------------------------------------------ unload and reload
\* Line 187: the stored client is disconnected, then the platforms are asked
\* to unload.  The unload is followed from a coordinator at rest.
UnloadStart(e) ==
    /\ setup_pc[e] = "done"
    /\ hass_data[e]
    /\ pull_pc[e] = "idle" /\ refresh_tasks[e] = 0 /\ inbox[e] = <<>>
    /\ disconnects' = [disconnects EXCEPT ![e] = Append(@, "unload")]
    /\ conn' = [conn EXCEPT ![e] = "disconnected"]
    /\ UNCHANGED <<setup_error, client_ready, elapsed, stop_listener, hass_stopped,
                   device_registered, hass_data, life_vars>>
    /\ UNCHANGED <<coord_vars, hub_vars, cb_vars, bus_vars, ent_vars>>

\* Faulty variant of UnloadFinish: the entry is removed whatever the platforms
\* answered.
UnloadFinishAlwaysPops(e, unloaded) ==
    /\ hass_data' = [hass_data EXCEPT ![e] = FALSE]
    /\ unload_result' = [unload_result EXCEPT ![e] = IF unloaded THEN "True" ELSE "False"]

\* Lines 196-199: the entry is removed from hass.data[DOMAIN] when every
\* platform unloaded, and `unloaded` is returned.
UnloadFinish(e, unloaded) ==
    /\ hass_data' = [hass_data EXCEPT ![e] = IF unloaded THEN FALSE ELSE @]
    /\ unload_result' = [unload_result EXCEPT ![e] = IF unloaded THEN "True" ELSE "False"]

\* async_unload_entry, called by the host for a loaded entry, up to its await.
async_unload_entry(e) ==
    /\ UnloadStart(e)
    /\ setup_pc' = [setup_pc EXCEPT ![e] = "unloading"]

\* The platform unloads of async_unload_entry are done, with their results.
async_unload_entry_return(e, unloaded) ==
    /\ setup_pc[e] = "unloading"
    /\ UnloadFinish(e, unloaded)
    /\ setup_pc' = [setup_pc EXCEPT ![e] = "unloaded"]
    /\ UNCHANGED <<setup_error, conn, client_ready, elapsed, stop_listener, hass_stopped,
                   disconnects, device_registered, retired>>
    /\ UNCHANGED <<coord_vars, hub_vars, cb_vars, bus_vars, ent_vars>>

\* async_reload_entry, the update listener: async_unload_entry up to its await.
async_reload_entry(e) ==
    /\ Len(retired[e]) < MaxReloads
    /\ UnloadStart(e)
    /\ setup_pc' = [setup_pc EXCEPT ![e] = "reload_unloading"]

\* async_reload_entry goes on: async_unload_entry returns, its result is
\* dropped, and async_setup_entry runs up to client.async_connect() with a new
\* client and new callbacks, whose closure variable coordinator is not bound
\* yet.  The client of the earlier setup keeps its stop listener.
async_reload_entry_setup(e, unloaded) ==
    /\ setup_pc[e] = "reload_unloading"
    /\ UnloadFinish(e, unloaded)
    /\ retired' = [retired EXCEPT ![e] =
                      Append(@, [disconnects |-> disconnects[e],
                                 stop_listener |-> stop_listener[e]])]
    /\ disconnects' = [disconnects EXCEPT ![e] = <<>>]
    /\ stop_listener' = [stop_listener EXCEPT ![e] = FALSE]
    /\ setup_pc' = [setup_pc EXCEPT ![e] = "connect"]
    /\ conn' = [conn EXCEPT ![e] = "connecting"]
    /\ client_ready' = [client_ready EXCEPT ![e] = FALSE]
    /\ coordinator' = [coordinator EXCEPT ![e] = FALSE]
    /\ data' = [data EXCEPT ![e] = NoData]
    /\ pull_buttons' = [pull_buttons EXCEPT ![e] = NoneFetch]
    /\ push_since_fetch' = [push_since_fetch EXCEPT ![e] = FALSE]
    /\ UNCHANGED <<setup_error, elapsed, hass_stopped, device_registered>>
    /\ UNCHANGED <<pull_pc, refresh_tasks>>
    /\ UNCHANGED <<hub_vars, cb_vars, bus_vars, ent_vars>>

\* ------------------------------------------------------- the hub's messages
ButtonEvent(b, a) == [type |-> "event", event |-> "button", button |-> b, action |-> a]
OtherEvent(kind, b) == [type |-> "event", event |-> kind, button |-> b, action |-> "None"]
ButtonsCommand(l) == [type |-> "command", command |-> "BUTTONS", buttons |-> l]
ServerInfoCommand(v) == [type |-> "command", command |-> "SERVER_INFO", version |-> v]
OtherCommand(c) == [type |-> "command", command |-> c]

\* What the hub sends in Spec: events, command replies and a missing command.
SpecMessages ==
    {ButtonEvent(B1, "single"), OtherEvent("buttonReady", B2)}
    \cup {ButtonsCommand(l) : l \in {<<B2>>, <<B1, B1r>>}}
    \cup {ServerInfoCommand(v) : v \in {REQUIRED_SERVER_VERSION, "0.1.7"}}
    \cup {OtherCommand("None")}

\* What the hubs send in SpecBus: button presses of every action code, and
\* events of other kinds.
BusMessages ==
    {ButtonEvent(B1, a) : a \in {"single", "double", "hold", "triple"}}
    \cup {ButtonEvent(B2, "single")}
    \cup {OtherEvent(k, B1) : k \in {"buttonReady", "buttonConnected"}}

\* The transport receives a message from the hub.
HubSend(e, m) ==
    /\ conn[e] = "connected"
    /\ hub_msgs[e] < MaxMsgs
    /\ Len(inbox[e]) < MaxInbox
    /\ inbox' = [inbox EXCEPT ![e] = Append(@, m)]
    /\ hub_msgs' = [hub_msgs EXCEPT ![e] = @ + 1]
    /\ UNCHANGED <<setup_vars, coord_vars, cb_vars, bus_vars, ent_vars>>
    /\ UNCHANGED life_vars

\* ------------------------------------------------------ the event entities
EVENT_TYPES == {"single_press", "double_press", "hold"}
\* Faulty variant of CLICK_MAP: a double click is mapped to single_press.
CLICK_MAP_swapped ==
    ("single" :> "single_press") @@ ("double" :> "single_press") @@ ("hold" :> "hold")
CLICK_MAP == ("single" :> "single_press") @@ ("double" :> "double_press") @@ ("hold" :> "hold")

\* CLICK_MAP.get(raw)
ClickMapGet(raw) == IF raw \in DOMAIN CLICK_MAP THEN CLICK_MAP[raw] ELSE "None"

\* _handle of entity t called with the payload d: the events it triggers
\* (none or one), each with the extra attributes.
handle(t, d) ==
    IF d.serial_number # t.serial THEN <<>>
    ELSE LET raw == d.click_type
             event_type == ClickMapGet(raw)
         IN IF event_type = "None" THEN <<>>
            ELSE << [event_type |-> event_type, name |-> d.name, click_type_raw |-> raw] >>

\* Faulty variant of async_added_to_hass: the handler is connected to the bare
\* SIGNAL_BUTTON_EVENT, a signal nothing is sent on.
async_added_to_hass_bare_signal(t) ==
    /\ ent_state[t] = "new"
    /\ setup_pc[t.entry] \in {"forward", "done"}
    /\ dispatcher' = [s \in DOMAIN dispatcher |->
                         IF s = SIGNAL_BUTTON_EVENT THEN Append(dispatcher[s], t)
                         ELSE dispatcher[s]]
    /\ unsub' = [unsub EXCEPT ![t] = "handle"]
    /\ ent_state' = [ent_state EXCEPT ![t] = "added"]
    /\ UNCHANGED <<received, triggered, logged_errors>>
    /\ UNCHANGED <<setup_vars, coord_vars, hub_vars, cb_vars, bus_vars>>
    /\ UNCHANGED life_vars

\* async_added_to_hass: the entity connects _handle to its entry's signal.
async_added_to_hass(t) ==
    /\ ent_state[t] = "new"
    /\ setup_pc[t.entry] \in {"forward", "done"}
    /\ dispatcher' = [dispatcher EXCEPT ![Signal(t.entry)] = Append(@, t)]
    /\ unsub' = [unsub EXCEPT ![t] = "handle"]
    /\ ent_state' = [ent_state EXCEPT ![t] = "added"]
    /\ UNCHANGED <<received, triggered, logged_errors>>
    /\ UNCHANGED <<setup_vars, coord_vars, hub_vars, cb_vars, bus_vars>>
    /\ UNCHANGED life_vars

\* The sequence s without the element t.
RECURSIVE Without(_, _)
Without(s, t) ==
    IF s = <<>> THEN <<>>
    ELSE IF Head(s) = t THEN Without(Tail(s), t)
    ELSE <<Head(s)>> \o Without(Tail(s), t)

\* Faulty variant of async_will_remove_from_hass: _unsub is cleared but the
\* stored handle is never called.
async_will_remove_from_hass_not_called(t) ==
    /\ ent_state[t] \in {"added", "removed", "removed_again"}
    /\ unsub' = [unsub EXCEPT ![t] = IF @ = "handle" THEN "None" ELSE @]
    /\ ent_state' = [ent_state EXCEPT ![t] =
                        IF @ = "added" THEN "removed" ELSE "removed_again"]
    /\ UNCHANGED <<dispatcher, received, triggered, logged_errors>>
    /\ UNCHANGED <<setup_vars, coord_vars, hub_vars, cb_vars, bus_vars>>
    /\ UNCHANGED life_vars

\* async_will_remove_from_hass: the stored unsubscribe handle is called and
\* cleared; a later call finds _unsub None and does nothing.
async_will_remove_from_hass(t) ==
    /\ ent_state[t] \in {"added", "removed", "removed_again"}
    /\ IF unsub[t] = "handle"
       THEN /\ dispatcher' = [dispatcher EXCEPT ![Signal(t.entry)] = Without(@, t)]
            /\ unsub' = [unsub EXCEPT ![t] = "None"]
       ELSE UNCHANGED <<dispatcher, unsub>>
    /\ ent_state' = [ent_state EXCEPT ![t] =
                        IF @ = "added" THEN "removed" ELSE "removed_again"]
    /\ UNCHANGED <<received, triggered, logged_errors>>
    /\ UNCHANGED <<setup_vars, coord_vars, hub_vars, cb_vars, bus_vars>>
    /\ UNCHANGED life_vars

\* ------------------------------------------------------------- on_event
\* The payload of the event fired on the bus (lines 53-57).
BusPayload(button, event) ==
    [serial_number |-> button.serial_number, name |-> button.name,
     click_type |-> event.action]

\* Faulty variant of SignalPayload: the name is taken from the wrong attribute.
SignalPayloadWrongName(button, event) ==
    [serial_number |-> button.serial_number, name |-> button.serial_number,
     click_type |-> event.action]

\* The payload sent on the entry's signal (lines 62-66).
SignalPayload(button, event) ==
    [serial_number |-> button.serial_number, name |-> button.name,
     click_type |-> event.action]

\* Faulty variant of RefreshOnButtonReady: the refresh is scheduled whether or
\* not the coordinator exists yet.
RefreshOnButtonReadyUnguarded(e) ==
    /\ refresh_tasks' = [refresh_tasks EXCEPT ![e] = @ + 1]
    /\ UNCHANGED cb_errors

\* Line 69: a refresh task is created; before line 141 has run, reading the
\* closure variable coordinator raises NameError.
RefreshOnButtonReady(e) ==
    IF coordinator[e]
    THEN /\ refresh_tasks' = [refresh_tasks EXCEPT ![e] = @ + 1]
         /\ UNCHANGED cb_errors
    ELSE /\ cb_errors' = [cb_errors EXCEPT ![e] =
                            @ \cup {[handler |-> "on_event", exc |-> "NameError"]}]
         /\ UNCHANGED refresh_tasks

\* async_dispatcher_send(hass, signal, d): every target connected to the signal
\* is called with d, in connection order; the dispatcher logs an exception of a
\* target (here: raised by async_write_ha_state, for the entities in `failing`)
\* and goes on.
DispatcherSend(signal, d, failing) ==
    LET targets == Range(dispatcher[signal])
    IN /\ received' = [t \in Entities |->
                         IF t \in targets THEN Append(received[t], d) ELSE received[t]]
       /\ triggered' = [t \in Entities |->
                          IF t \in targets THEN triggered[t] \o handle(t, d)
                          ELSE triggered[t]]
       /\ logged_errors' = logged_errors \cup failing
       /\ dispatched' = Append(dispatched, [signal |-> signal, data |-> d])

\* on_event(button, event), called by the client for the next received event.
on_event(e) ==
    /\ inbox[e] # <<>>
    /\ Head(inbox[e]).type = "event"
    /\ LET m == Head(inbox[e])
       IN /\ IF m.event = "button"
             THEN /\ bus_events' = Append(bus_events,
                        [event_type |-> EVENT_CLICK, data |-> BusPayload(m.button, m)])
                  /\ \E failing \in SUBSET {t \in Range(dispatcher[Signal(e)]) :
                                              handle(t, SignalPayload(m.button, m)) # <<>>} :
                        DispatcherSend(Signal(e), SignalPayload(m.button, m), failing)
             ELSE UNCHANGED <<bus_events, dispatched, received, triggered, logged_errors>>
          /\ IF m.event = "buttonReady"
             THEN RefreshOnButtonReady(e)
             ELSE UNCHANGED <<refresh_tasks, cb_errors>>
    /\ inbox' = [inbox EXCEPT ![e] = Tail(@)]
    /\ UNCHANGED <<coordinator, data, pull_pc, pull_buttons, push_since_fetch>>
    /\ UNCHANGED <<setup_vars, hub_msgs, issues, issue_creates, dispatcher, ent_state, unsub>>
    /\ UNCHANGED life_vars

\* ------------------------------------------------------------ on_command
\* Faulty variant of IssueId: the entry id is left out of the issue id.
IssueIdShared(e) == "invalid_server_version"

\* f"invalid_server_version_{entry.entry_id}"
IssueId(e) == "invalid_server_version_" \o e

\* async_create_issue: one issue per (domain, issue_id), the last one created.
CreateIssue(registry, issue) ==
    {i \in registry : ~(i.domain = issue.domain /\ i.issue_id = issue.issue_id)}
    \cup {issue}

\* The data a BUTTONS reply sets: the pushed buttons, and the hub info of the
\* current data when there is one.
PushedData(e, buttons) ==
    [buttons |-> KeyBySerial(buttons),
     hub |-> IF data[e] # NoData THEN data[e].hub ELSE "None"]

\* on_command(command), called by the client for the next received reply.
on_command(e) ==
    /\ inbox[e] # <<>>
    /\ Head(inbox[e]).type = "command"
    /\ LET m == Head(inbox[e])
       IN IF m.command = "None"
          THEN \* line 72 reads command.command before the None check of line 73
               /\ cb_errors' = [cb_errors EXCEPT ![e] =
                     @ \cup {[handler |-> "on_command", exc |-> "AttributeError"]}]
               /\ UNCHANGED <<issues, issue_creates, data, push_since_fetch>>
          ELSE /\ IF m.command = "SERVER_INFO" /\ m.version # REQUIRED_SERVER_VERSION
                  THEN /\ issues' = CreateIssue(issues,
                             [domain |-> FLICHUB_DOMAIN,
                              issue_id |-> IssueId(e),
                              required_version |-> REQUIRED_SERVER_VERSION,
                              flichub_version |-> m.version])
                       /\ issue_creates' = [issue_creates EXCEPT ![e] = @ + 1]
                  ELSE UNCHANGED <<issues, issue_creates>>
               /\ IF m.command = "BUTTONS"
                  THEN IF coordinator[e]
                       THEN /\ data' = [data EXCEPT ![e] = PushedData(e, m.buttons)]
                            /\ push_since_fetch' = [push_since_fetch EXCEPT ![e] =
                                                      @ \/ pull_pc[e] = "hubinfo"]
                            /\ UNCHANGED cb_errors
                       ELSE /\ cb_errors' = [cb_errors EXCEPT ![e] =
                                  @ \cup {[handler |-> "on_command", exc |-> "NameError"]}]
                            /\ UNCHANGED <<data, push_since_fetch>>
                  ELSE UNCHANGED <<data, push_since_fetch, cb_errors>>
    /\ inbox' = [inbox EXCEPT ![e] = Tail(@)]
    /\ UNCHANGED <<coordinator, pull_pc, pull_buttons, refresh_tasks>>
    /\ UNCHANGED <<setup_vars, hub_msgs, bus_vars, ent_vars>>
    /\ UNCHANGED life_vars

\* ----------------------------------------------------------- specifications
\* The life of one config entry: setup, refreshes, pushes, host stop.
Next ==
    \/ \E e \in SetupEntries : async_setup_entry(e)
    \/ \E e \in SetupEntries : client_connected(e)
    \/ \E e \in SetupEntries : async_connect_return(e)
    \/ \E e \in SetupEntries : async_connect_raise(e)
    \/ \E e \in SetupEntries : Tick(e)
    \/ \E e \in SetupEntries : wait_return(e)
    \/ \E e \in SetupEntries : wait_timeout(e)
    \/ stop_client
    \/ \E e \in SetupEntries : periodic_refresh(e)
    \/ \E e \in SetupEntries : refresh_task(e)
    \/ \E e \in SetupEntries, b \in ButtonFetches : get_buttons_return(e, b)
    \/ \E e \in SetupEntries, h \in HubFetches : get_hubinfo_return(e, h)
    \/ \E e \in SetupEntries : forward_return(e)
    \/ \E e \in SetupEntries, m \in SpecMessages : HubSend(e, m)
    \/ \E e \in SetupEntries : on_event(e)
    \/ \E e \in SetupEntries : on_command(e)

Spec == Init /\ [][Next]_vars

\* Both config entries are loaded (each went through the setup path of Spec and
\* its first refresh fetched two buttons and a hub info); from there the hubs
\* send events while the entities are added and removed.
InitBus ==
    /\ setup_pc = [e \in Entries |-> "done"]
    /\ setup_error = [e \in Entries |-> "none"]
    /\ conn = [e \in Entries |-> "connected"]
    /\ client_ready = [e \in Entries |-> TRUE]
    /\ elapsed = [e \in Entries |-> 0]
    /\ stop_listener = [e \in Entries |-> TRUE]
    /\ hass_stopped = FALSE
    /\ disconnects = [e \in Entries |-> <<>>]
    /\ coordinator = [e \in Entries |-> TRUE]
    /\ data = [e \in Entries |-> async_update(Some(<<B1, B2>>), "hub1")]
    /\ pull_pc = [e \in Entries |-> "idle"]
    /\ pull_buttons = [e \in Entries |-> NoneFetch]
    /\ refresh_tasks = [e \in Entries |-> 0]
    /\ push_since_fetch = [e \in Entries |-> FALSE]
    /\ device_registered = [e \in Entries |-> TRUE]
    /\ hass_data = [e \in Entries |-> TRUE]
    /\ retired = [e \in Entries |-> <<>>]
    /\ unload_result = [e \in Entries |-> "none"]
    /\ inbox = [e \in Entries |-> <<>>]
    /\ hub_msgs = [e \in Entries |-> 0]
    /\ cb_errors = [e \in Entries |-> {}]
    /\ issues = {}
    /\ issue_creates = [e \in Entries |-> 0]
    /\ bus_events = <<>>
    /\ dispatched = <<>>
    /\ dispatcher = [s \in Signals |-> <<>>]
    /\ ent_state = [t \in Entities |-> "new"]
    /\ unsub = [t \in Entities |-> "unset"]
    /\ received = [t \in Entities |-> <<>>]
    /\ triggered = [t \in Entities |-> <<>>]
    /\ logged_errors = {}

\* Messages sent by all hubs together.
RECURSIVE SumMsgs(_)
SumMsgs(es) ==
    IF es = {} THEN 0
    ELSE LET e == CHOOSE x \in es : TRUE IN hub_msgs[e] + SumMsgs(es \ {e})

NextBus ==
    \/ \E e \in Entries, m \in BusMessages :
          SumMsgs(Entries) < MaxBusMsgs /\ HubSend(e, m)
    \/ \E e \in Entries : on_event(e)
    \/ \E t \in Entities : async_added_to_hass(t)
    \/ \E t \in Entities : ent_state[t] = "added" /\ async_will_remove_from_hass(t)

SpecBus == InitBus /\ [][NextBus]_vars

\* The entities of one loaded entry are added and removed, and removed again,
\* while its hub sends events.
UnsubEntry == "A"
NextUnsub ==
    \/ \E m \in BusMessages : HubSend(UnsubEntry, m)
    \/ on_event(UnsubEntry)
    \/ \E t \in Entities : t.entry = UnsubEntry /\ async_added_to_hass(t)
    \/ \E t \in Entities : t.entry = UnsubEntry /\ async_will_remove_from_hass(t)

SpecUnsub == InitBus /\ [][NextUnsub]_vars

\* The life of one config entry through setup, unload, reload and host stop.
NextLife ==
    \/ \E e \in SetupEntries : async_setup_entry(e)
    \/ \E e \in SetupEntries : client_connected(e)
    \/ \E e \in SetupEntries : async_connect_return(e)
    \/ \E e \in SetupEntries : async_connect_raise(e)
    \/ \E e \in SetupEntries : Tick(e)
    \/ \E e \in SetupEntries : wait_return(e)
    \/ \E e \in SetupEntries : wait_timeout(e)
    \/ stop_client
    \/ \E e \in SetupEntries, b \in ButtonFetches : get_buttons_return(e, b)
    \/ \E e \in SetupEntries, h \in HubFetches : get_hubinfo_return(e, h)
    \/ \E e \in SetupEntries : forward_return(e)
    \/ \E e \in SetupEntries : async_unload_entry(e)
    \/ \E e \in SetupEntries, unloaded \in BOOLEAN : async_unload_entry_return(e, unloaded)
    \/ \E e \in SetupEntries : async_reload_entry(e)
    \/ \E e \in SetupEntries, unloaded \in BOOLEAN : async_reload_entry_setup(e, unloaded)

SpecLife == Init /\ [][NextLife]_vars

\* What the hubs send in SpecInfo: SERVER_INFO replies with the required
\* version and with two other versions.
InfoMessages == {ServerInfoCommand(v) : v \in {REQUIRED_SERVER_VERSION, "0.1.7", "0.1.6"}}

\* Both entries are loaded and their hubs reply to get_server_info.
NextInfo ==
    \/ \E e \in Entries, m \in InfoMessages : HubSend(e, m)
    \/ \E e \in Entries : on_command(e)

SpecInfo == InitBus /\ [][NextInfo]_vars

\* ------------------------------------------------------------------ claims
HubPresent(d) == d # NoData /\ HubTruthy(d.hub)
PullCompletes(e) == pull_pc[e] = "hubinfo" /\ pull_pc'[e] = "idle"
Count(s, x) == Cardinality({i \in DOMAIN s : s[i] = x})
Last(s) == s[Len(s)]

\* C1: once the snapshot's hub_info has been non-empty, it is neither empty
\* nor absent in any later snapshot, whatever pulls and pushes follow.
C1_HubInfoNeverEmptied ==
    [][\A e \in Entries : HubPresent(data[e]) => HubPresent(data'[e])]_vars

\* The mapping a buttons fetch stands for: no button when the fetch failed,
\* else for every serial number in the list the last button carrying it.
FetchedMapping(f) ==
    IF ~f.ok THEN <<>>
    ELSE [s \in {f.val[i].serial_number : i \in DOMAIN f.val} |->
            f.val[CHOOSE i \in DOMAIN f.val :
                    /\ f.val[i].serial_number = s
                    /\ \A j \in DOMAIN f.val : f.val[j].serial_number = s => j <= i]]

\* C2: when a pull completes, the snapshot's buttons are exactly the mapping
\* by serial number of the buttons that pull fetched, and are empty when that
\* fetch failed, whatever the snapshot held before.
C2_ButtonsReflectFetch ==
    [][\A e \in Entries :
         PullCompletes(e) =>
            /\ data'[e] # NoData
            /\ data'[e].buttons = FetchedMapping(pull_buttons[e])
            /\ (~pull_buttons[e].ok => DOMAIN data'[e].buttons = {})]_vars

\* A pull whose buttons fetch failed has completed after the setup, and the
\* snapshot holds no button.
C2_Witness ==
    /\ setup_pc["A"] = "done"
    /\ pull_pc["A"] = "idle"
    /\ ~pull_buttons["A"].ok
    /\ data["A"] # NoData
    /\ data["A"].buttons = <<>>
    /\ data["A"].hub = "hub1"

C4_NoPullBeforeReady ==
    \A e \in Entries :
        (pull_pc[e] # "idle" \/ refresh_tasks[e] > 0 \/ data[e] # NoData)
            => /\ client_ready[e]
               /\ coordinator[e]
               /\ setup_pc[e] \in {"first_refresh", "forward", "done"}

\* A buttonReady event was handled while setup was still waiting for the
\* readiness flag, and no pull was started.
C4_Witness ==
    /\ setup_pc["A"] = "wait"
    /\ [handler |-> "on_event", exc |-> "NameError"] \in cb_errors["A"]
    /\ pull_pc["A"] = "idle"
    /\ refresh_tasks["A"] = 0

\* C5: setup ends with an error only when the connect call raises or the
\* readiness wait times out; a pull whose sub-queries fail completes with the
\* fallback values and lets setup go on.
C5_OnlyConnectAndTimeoutAbort ==
    [][\A e \in Entries :
         /\ (setup_error'[e] # setup_error[e] \/ (setup_pc'[e] = "error" /\ setup_pc[e] # "error"))
               => \/ /\ setup_pc[e] = "connect"
                     /\ setup_error'[e] = "ConnectError"
                  \/ /\ setup_pc[e] = "timedout"
                     /\ setup_error'[e] = "ConfigEntryNotReady"
         /\ PullCompletes(e)
               => /\ setup_error'[e] = "none"
                  /\ setup_pc'[e] = IF setup_pc[e] = "first_refresh" THEN "forward"
                                    ELSE setup_pc[e]]_vars

\* The first refresh failed in both sub-queries and setup went on.
C5_Witness ==
    /\ setup_pc["A"] = "forward"
    /\ setup_error["A"] = "none"
    /\ refresh_tasks["A"] = 0 /\ hub_msgs["A"] = 0
    /\ pull_pc["A"] = "idle"
    /\ ~pull_buttons["A"].ok
    /\ data["A"] = [buttons |-> <<>>, hub |-> "{}"]

\* C6: a pull that completes after a BUTTONS reply was applied during it does
\* not replace the snapshot in a way that drops or reverts the pushed buttons.
C6_PullKeepsPushedButtons ==
    [][\A e \in Entries :
         (PullCompletes(e) /\ push_since_fetch[e])
            => data'[e].buttons = data[e].buttons]_vars

\* on_event / on_command of entry e handles the oldest message in this step.
Handles(e) == Len(inbox'[e]) < Len(inbox[e])
HandlesButtonEvent(e) ==
    /\ Handles(e)
    /\ Head(inbox[e]).type = "event"
    /\ Head(inbox[e]).event = "button"
PressPayload(m) ==
    [serial_number |-> m.button.serial_number, name |-> m.button.name,
     click_type |-> m.action]
Subscribed(t, e) == ent_state[t] = "added" /\ t.entry = e
OwnSignal(e) == SIGNAL_BUTTON_EVENT \o "_" \o e
\* Payloads sent on the signal sig, in the order sent.
RECURSIVE SentOn(_, _)
SentOn(log, sig) ==
    IF log = <<>> THEN <<>>
    ELSE IF Head(log).signal = sig THEN <<Head(log).data>> \o SentOn(Tail(log), sig)
    ELSE SentOn(Tail(log), sig)

\* C7: a hub event of kind "button" fires the bus event and the send on the
\* entry's own signal, each once and with the same payload {serial_number,
\* name, click_type}; an event of any other kind fires neither, and nothing
\* else fires them.
C7_BothPathsFire ==
    [][/\ \A e \in Entries :
            (Handles(e) /\ Head(inbox[e]).type = "event") =>
               LET m == Head(inbox[e])
               IN IF m.event = "button"
                  THEN /\ bus_events' = Append(bus_events,
                             [event_type |-> EVENT_CLICK, data |-> PressPayload(m)])
                       /\ dispatched' = Append(dispatched,
                             [signal |-> OwnSignal(e), data |-> PressPayload(m)])
                  ELSE /\ bus_events' = bus_events
                       /\ dispatched' = dispatched
       /\ (\A e \in Entries : ~Handles(e)) =>
               bus_events' = bus_events /\ dispatched' = dispatched]_vars

\* One button event fired both paths with the same payload, and one
\* buttonReady event fired neither.
C7_Witness ==
    /\ Len(bus_events) = 1
    /\ Len(dispatched) = 1
    /\ bus_events[1].data = dispatched[1].data
    /\ dispatched[1].signal = OwnSignal("A")
    /\ refresh_tasks["A"] = 1
    /\ hub_msgs["A"] = 2
    /\ inbox["A"] = <<>>

\* C8: every button event an entry publishes is delivered, oldest first, to
\* every entity subscribed on that entry's signal, also when the handler of
\* one of them fails; the failure raises nothing in the publisher. What an
\* entity received is an unbroken run of what was sent on its signal.
C8_DeliveredToAllInOrder ==
    /\ [][\A e \in Entries :
            HandlesButtonEvent(e) =>
               /\ \A t \in Entities :
                     Subscribed(t, e) =>
                        received'[t] = Append(received[t], PressPayload(Head(inbox[e])))
               /\ cb_errors' = cb_errors
               /\ inbox'[e] = Tail(inbox[e])]_vars
    /\ [](\A t \in Entities :
             LET sent == SentOn(dispatched, OwnSignal(t.entry))
             IN \E i \in 1..(Len(sent) + 1) :
                   received[t] = SubSeq(sent, i, i + Len(received[t]) - 1))

\* Two entities are subscribed on one signal, the first one's handler failed,
\* and both received the same two different events.
C8_Witness ==
    LET t1 == [entry |-> "A", serial |-> "s1"]
        t2 == [entry |-> "A", serial |-> "s2"]
    IN /\ dispatcher[OwnSignal("A")] = <<t1, t2>>
       /\ t1 \in logged_errors
       /\ Len(received[t1]) = 2
       /\ received[t1][1] # received[t1][2]
       /\ received[t2] = received[t1]

\* C9: an event published by one entry is delivered to no entity of another
\* entry: such an entity's handler is not called; an entity never received
\* more than was sent on its own entry's signal.
C9_NoCrossDelivery ==
    /\ [][\A e \in Entries :
            Handles(e) =>
               \A t \in Entities :
                  t.entry # e => received'[t] = received[t] /\ triggered'[t] = triggered[t]]_vars
    /\ [](\A t \in Entities :
             Len(received[t]) <= Len(SentOn(dispatched, OwnSignal(t.entry))))

\* Both hubs published a press of a button with serial s1 while the two
\* entities for s1 were subscribed; each received only its own hub's event.
C9_Witness ==
    LET ta == [entry |-> "A", serial |-> "s1"]
        tb == [entry |-> "B", serial |-> "s1"]
    IN /\ Len(dispatched) = 2
       /\ dispatched[1].signal = OwnSignal("A")
       /\ dispatched[2].signal = OwnSignal("B")
       /\ dispatched[1].data.serial_number = "s1"
       /\ dispatched[2].data.serial_number = "s1"
       /\ dispatched[1].data # dispatched[2].data
       /\ ent_state[ta] = "added" /\ ent_state[tb] = "added"
       /\ received[ta] = <<dispatched[1].data>>
       /\ received[tb] = <<dispatched[2].data>>

\* C10: a subscribed entity triggers an event exactly when the payload's
\* serial number is its own and the raw action is single, double or hold; the
\* type is then single_press, double_press, hold. Otherwise it triggers
\* nothing and its handler raises nothing. Nothing else triggers events.
C10_TriggerIffMatch ==
    [][/\ \A e \in Entries :
            HandlesButtonEvent(e) =>
               \A t \in Entities :
                  LET m == Head(inbox[e])
                  IN IF /\ Subscribed(t, e)
                        /\ m.button.serial_number = t.serial
                        /\ m.action \in {"single", "double", "hold"}
                     THEN /\ Len(triggered'[t]) = Len(triggered[t]) + 1
                          /\ SubSeq(triggered'[t], 1, Len(triggered[t])) = triggered[t]
                          /\ Last(triggered'[t]).event_type =
                                CASE m.action = "single" -> "single_press"
                                  [] m.action = "double" -> "double_press"
                                  [] m.action = "hold" -> "hold"
                     ELSE /\ triggered'[t] = triggered[t]
                          /\ (t \in logged_errors' => t \in logged_errors)
       /\ (\A e \in Entries : ~HandlesButtonEvent(e)) => triggered' = triggered]_vars

\* An entity received a triple click and a double click of its button and
\* triggered one event, double_press; the entity of the other button of the
\* same hub received both and triggered nothing.
C10_Witness ==
    LET t1 == [entry |-> "A", serial |-> "s1"]
        t2 == [entry |-> "A", serial |-> "s2"]
    IN /\ Len(received[t1]) = 2
       /\ received[t1][1].click_type = "triple"
       /\ received[t1][2].click_type = "double"
       /\ Len(triggered[t1]) = 1
       /\ triggered[t1][1].event_type = "double_press"
       /\ received[t2] = received[t1]
       /\ triggered[t2] = <<>>
       /\ logged_errors = {}

\* The entity's handler is connected to its entry's signal.
Connected(t) == t \in Range(dispatcher[Signal(t.entry)])
\* async_will_remove_from_hass of entity t runs in this step.
Removes(t) ==
    /\ ent_state'[t] # ent_state[t]
    /\ ent_state'[t] \in {"removed", "removed_again"}

\* C11: unsubscribing is idempotent: the first removal of an entity disconnects
\* its handler and clears the stored handle, a removal after that changes
\* nothing and raises nothing, and once removed the handler is connected to no
\* signal and is called with no further event.
C11_UnsubscribeIdempotent ==
    /\ [][\A t \in Entities :
            /\ Removes(t)
                  => /\ unsub'[t] = "None"
                     /\ ~Connected(t)'
                     /\ \A u \in Entities \ {t} : Connected(u)' = Connected(u)
                     /\ logged_errors' = logged_errors
                     /\ received' = received /\ triggered' = triggered
            /\ (Removes(t) /\ ent_state[t] # "added")
                  => dispatcher' = dispatcher /\ unsub' = unsub
            /\ ent_state[t] \in {"removed", "removed_again"}
                  => received'[t] = received[t] /\ triggered'[t] = triggered[t]]_vars
    /\ [](\A t \in Entities :
             ent_state[t] \in {"removed", "removed_again"}
                => unsub[t] = "None" /\ \A s \in Signals : t \notin Range(dispatcher[s]))

\* An entity was called with one press, was then removed twice, and a second
\* press of its button sent on its signal afterwards did not reach it.
C11_Witness ==
    LET t == [entry |-> "A", serial |-> "s1"]
    IN /\ ent_state[t] = "removed_again"
       /\ Len(received[t]) = 1
       /\ Len(dispatched) = 2
       /\ received[t][1] = dispatched[1].data
       /\ dispatched[2].data.serial_number = "s1"
       /\ unsub[t] = "None"

\* The setup of entry e has torn its client down itself: the readiness wait
\* timed out, or an unload has disconnected it.
TornDown(e) ==
    \/ setup_error[e] = "ConfigEntryNotReady"
    \/ setup_pc[e] \in {"unloading", "reload_unloading", "unloaded"}

\* C12: over setup, readiness timeout, unload, reload and host stop, every
\* client an entry has created is disconnected at most once, and exactly once
\* when it was torn down or replaced by a reload.
C12_DisconnectExactlyOnce ==
    \A e \in Entries :
        /\ \A i \in DOMAIN retired[e] : Len(retired[e][i].disconnects) = 1
        /\ Len(disconnects[e]) <= 1
        /\ TornDown(e) => Len(disconnects[e]) = 1

\* C13: when setup has failed, at the connect call or at the readiness wait,
\* the setup path has called disconnect() exactly once.
C13_FailedSetupDisconnects ==
    \A e \in Entries :
        setup_error[e] # "none" => Count(disconnects[e], "setup") = 1

\* on_command of entry e handles a SERVER_INFO reply in this step.
HandlesServerInfo(e) ==
    /\ Handles(e)
    /\ Head(inbox[e]).type = "command"
    /\ Head(inbox[e]).command = "SERVER_INFO"
\* The advisories of the issue registry filed under entry e's id.
Advisories(e) ==
    {i \in issues : i.domain = FLICHUB_DOMAIN /\ i.issue_id = "invalid_server_version_" \o e}

\* C14: a SERVER_INFO reply whose version differs from the required one leaves
\* exactly one advisory under the entry's id, carrying the required and the
\* reported version, however many such replies came before; a reply with the
\* required version changes no advisory; no other advisory exists.
C14_OneAdvisoryPerEntry ==
    /\ [][\A e \in Entries :
            HandlesServerInfo(e) =>
               LET v == Head(inbox[e]).version
               IN IF v # REQUIRED_SERVER_VERSION
                  THEN /\ Advisories(e)' =
                            {[domain |-> FLICHUB_DOMAIN,
                              issue_id |-> "invalid_server_version_" \o e,
                              required_version |-> REQUIRED_SERVER_VERSION,
                              flichub_version |-> v]}
                       /\ \A f \in Entries \ {e} : Advisories(f)' = Advisories(f)
                  ELSE issues' = issues]_vars
    /\ [](/\ issues = UNION {Advisories(e) : e \in Entries}
          /\ \A e \in Entries :
                /\ Cardinality(Advisories(e)) <= 1
                /\ Advisories(e) # {} <=> issue_creates[e] > 0)

\* Entry A's hub reported two versions other than the required one, entry B's
\* hub one: each entry has one advisory, A's carrying the version reported last.
C14_Witness ==
    /\ issue_creates["A"] = 2 /\ issue_creates["B"] = 1
    /\ Cardinality(issues) = 2
    /\ \E i \in Advisories("A") :
          i.flichub_version = "0.1.6" /\ i.required_version = REQUIRED_SERVER_VERSION
    /\ Cardinality(Advisories("B")) = 1

\* on_event of entry e handles an event in this step.
HandlesEvent(e) == Handles(e) /\ Head(inbox[e]).type = "event"
\* on_command of entry e handles a reply in this step.
HandlesCommand(e) == Handles(e) /\ Head(inbox[e]).type = "command"

\* C15: handling a buttonReady event schedules one refresh, which does not
\* wait for the periodic refresh; handling an event of another kind schedules
\* none.
C15_ButtonReadySchedulesRefresh ==
    [][\A e \in Entries :
         HandlesEvent(e) =>
            IF Head(inbox[e]).event = "buttonReady"
            THEN refresh_tasks'[e] = refresh_tasks[e] + 1
            ELSE refresh_tasks'[e] = refresh_tasks[e]]_vars

\* C16: after a BUTTONS reply is handled, the snapshot's buttons are the pushed
\* list keyed by serial number and its hub_info is the one of the snapshot
\* before the push, absent when there was no snapshot.
C16_PushChangesOnlyButtons ==
    [][\A e \in Entries :
         (HandlesCommand(e) /\ Head(inbox[e]).command = "BUTTONS") =>
            /\ data'[e] # NoData
            /\ data'[e].buttons = FetchedMapping(Some(Head(inbox[e]).buttons))
            /\ data'[e].hub = IF data[e] # NoData THEN data[e].hub ELSE "None"]_vars

\* C17: a buttonReady event or a BUTTONS reply that arrives before the
\* coordinator exists is handled without an error.
C17_PushBeforeCoordinatorHandled ==
    [][\A e \in Entries :
         (/\ Handles(e)
          /\ ~coordinator[e]
          /\ \/ HandlesEvent(e) /\ Head(inbox[e]).event = "buttonReady"
             \/ HandlesCommand(e) /\ Head(inbox[e]).command = "BUTTONS")
            => cb_errors'[e] = cb_errors[e]]_vars

\* C18: on_command called without a command raises nothing, creates no
\* advisory and leaves the snapshot as it was.
C18_NullCommandIgnored ==
    [][\A e \in Entries :
         (HandlesCommand(e) /\ Head(inbox[e]).command = "None") =>
            /\ cb_errors'[e] = cb_errors[e]
            /\ issues' = issues
            /\ data'[e] = data[e]]_vars

\* async_unload_entry of entry e returns in this step.
UnloadReturns(e) ==
    /\ setup_pc[e] \in {"unloading", "reload_unloading"}
    /\ setup_pc'[e] # setup_pc[e]
\* A setup of entry e is running and has not stored its own client yet.
SetupBeforeStore(e) == setup_pc[e] \in {"connect", "wait", "timedout", "first_refresh"}

\* C19: async_unload_entry has disconnected the stored client before it
\* returns, whatever it returns, and the entry is absent from hass.data
\* exactly when it returned True; the setup of a reload then runs, and while
\* it has not stored its own client an entry still stored is the earlier
\* one, whose client is disconnected.
C19_UnloadDisconnectsAndPops ==
    /\ [][\A e \in Entries :
            UnloadReturns(e) =>
               /\ Count(disconnects[e], "unload") = 1
               /\ conn[e] = "disconnected"
               /\ hass_data[e]
               /\ unload_result'[e] \in {"True", "False"}
               /\ ~hass_data'[e] <=> unload_result'[e] = "True"]_vars
    /\ [](\A e \in Entries :
             (hass_data[e] /\ SetupBeforeStore(e))
                => /\ unload_result[e] = "False"
                   /\ retired[e] # <<>>
                   /\ Count(Last(retired[e]).disconnects, "unload") = 1)

\* A reload whose unload returned False: the new setup waits for its client
\* while hass.data still holds the earlier entry, its client disconnected by
\* the unload.
C19_Witness ==
    /\ setup_pc["A"] = "wait"
    /\ conn["A"] = "connecting"
    /\ hass_data["A"]
    /\ unload_result["A"] = "False"
    /\ Len(retired["A"]) = 1
    /\ retired["A"][1].disconnects = <<"unload">>

====
